---- MODULE Spec2Model ----
(***************************************************************************)
(* Model of swarm/ollama/wrapper.py: ChatCompletions.create, the response  *)
(* adapters (Function, ToolCall, Message, WrappedResponse) and the         *)
(* bracket heuristic that turns "[name(args)]" in a reply into a tool call.*)
(*                                                                         *)
(* Python str values that the code scans are sequences of one-character    *)
(* strings; dicts are functions whose DOMAIN is the set of keys present.   *)
(***************************************************************************)
EXTENDS Integers, Sequences, FiniteSets, TLC

VARIABLES
    pc,         \* "ready": create not yet called; "done": create has ended
    messages,   \* argument messages: the caller's list of message dicts
    model,      \* argument model
    stream,     \* argument stream
    tools,      \* argument tools: None or a list of tool descriptors
    debug,      \* whether the module logger is enabled for DEBUG
    runtime,    \* what self.client.chat does when it is called
    chatCalls,  \* the keyword arguments of every call made to client.chat
    logged,     \* the debug records emitted
    outcome     \* how create ended: a WrappedResponse or a raised error

vars == <<pc, messages, model, stream, tools, debug, runtime, chatCalls, logged, outcome>>

(***************************************************************************)
(* Bounds of the model.                                                    *)
(***************************************************************************)
MaxFrags == 5   \* content is built of at most this many fragments
MaxMsgs == 2    \* messages passed to create
MaxTools == 1   \* tool descriptors passed to create
MaxCalls == 2   \* native tool calls in a runtime response

(***************************************************************************)
(* Python str operations, on sequences of characters.                      *)
(***************************************************************************)
Min(a, b) == IF a <= b THEN a ELSE b

\* c in s, for a one-character c
Contains(s, c) == \E i \in 1..Len(s) : s[i] = c

\* s.find(c) for a one-character c: the 0-based index of the first c, -1 if none
Find(s, c) ==
    IF Contains(s, c)
    THEN (CHOOSE i \in 1..Len(s) : s[i] = c /\ \A j \in 1..(i - 1) : s[j] # c) - 1
    ELSE -1

\* s[a:b] for 0 <= a and 0 <= b: the characters at 0-based indices a .. b-1
Slice(s, a, b) == SubSeq(s, a + 1, Min(b, Len(s)))

\* s[a:]
SliceFrom(s, a) == SubSeq(s, a + 1, Len(s))

\* s.split(c) for a one-character c: the pieces between the occurrences of c
RECURSIVE Split(_, _)
Split(s, c) ==
    IF ~Contains(s, c)
    THEN <<s>>
    ELSE <<Slice(s, 0, Find(s, c))>> \o Split(SliceFrom(s, Find(s, c) + 1), c)

\* str.isspace for one character
IsSpace(c) == c \in {" ", "\t", "\n"}

\* s.lstrip()
RECURSIVE LStrip(_)
LStrip(s) == IF s # <<>> /\ IsSpace(Head(s)) THEN LStrip(Tail(s)) ELSE s

\* s.rstrip()
RECURSIVE RStrip(_)
RStrip(s) ==
    IF s # <<>> /\ IsSpace(s[Len(s)]) THEN RStrip(SubSeq(s, 1, Len(s) - 1)) ELSE s

\* s.strip()
Strip(s) == RStrip(LStrip(s))

\* s.startswith(p)
StartsWith(s, p) == Len(p) <= Len(s) /\ SubSeq(s, 1, Len(p)) = p

\* s.replace(old, "", 1): only the first occurrence is removed
ReplaceOnce(s, old) ==
    IF \E i \in 0..(Len(s) - Len(old)) : StartsWith(SliceFrom(s, i), old)
    THEN LET i == CHOOSE k \in 0..(Len(s) - Len(old)) :
                      /\ StartsWith(SliceFrom(s, k), old)
                      /\ \A j \in 0..(k - 1) : ~StartsWith(SliceFrom(s, j), old)
         IN Slice(s, 0, i) \o SliceFrom(s, i + Len(old))
    ELSE s

\* s.replace(old, ""), old not empty: every occurrence found scanning left to
\* right is removed (str.replace without a count replaces all of them)
RECURSIVE Replace(_, _)
Replace(s, old) ==
    IF s = <<>>
    THEN <<>>
    ELSE IF StartsWith(s, old)
         THEN Replace(SliceFrom(s, Len(old)), old)
         ELSE <<Head(s)>> \o Replace(Tail(s), old)

(***************************************************************************)
(* The bracket heuristic of create (wrapper.py 188-210).                   *)
(***************************************************************************)
\* content[content.find("[") + 1 : content.find("]")]
FunctionCall(content) == Slice(content, Find(content, "[") + 1, Find(content, "]"))

\* the parentheses looked for in the whole content, not in function_call
HeuristicFires_ParensAnywhere(content) ==
    /\ Contains(content, "[") /\ Contains(content, "]")
    /\ Contains(content, "(") /\ Contains(content, ")")

\* the three nested conditions under which a tool call is synthesized
HeuristicFires(content) ==
    /\ Contains(content, "[")
    /\ Contains(content, "[") /\ Contains(content, "]")
    /\ Contains(FunctionCall(content), "(") /\ Contains(FunctionCall(content), ")")

\* the name taken without .strip()
FuncName_NoStrip(function_call) == Split(function_call, "(")[1]

\* function_call.split("(")[0].strip()
FuncName(function_call) == Strip(Split(function_call, "(")[1])

\* function_call.split("(")[1].split(")")[0].strip()
FuncArgs(function_call) == Strip(Split(Split(function_call, "(")[2], ")")[1])

(***************************************************************************)
(* Python values that json handles: a dict is the sequence of its          *)
(* (key, value) pairs in insertion order, keys being str.                  *)
(***************************************************************************)
PyStr(s) == [t |-> "str", v |-> s]

PyInt(n) == [t |-> "int", v |-> n]

PyDict(pairs) == [t |-> "dict", v |-> pairs]

PyList(items) == [t |-> "list", v |-> items]

PyConst(name) == [t |-> "const", v |-> name]

EmptyDict == PyDict(<<>>)

\* isinstance(x, dict)
IsDict(x) == x.t = "dict"

DigitChars == <<"0", "1", "2", "3", "4", "5", "6", "7", "8", "9">>

Digits == {DigitChars[i] : i \in 1..10}

DigitVal(c) == (CHOOSE i \in 1..10 : DigitChars[i] = c) - 1

\* str(n) for n >= 0
RECURSIVE IntToStr(_)
IntToStr(n) ==
    IF n < 10 THEN <<DigitChars[n + 1]>> ELSE IntToStr(n \div 10) \o <<DigitChars[(n % 10) + 1]>>

\* the body of a JSON string literal: quote and backslash are escaped
RECURSIVE JsonEscape(_)
JsonEscape(s) ==
    IF s = <<>>
    THEN <<>>
    ELSE (IF Head(s) \in {"\"", "\\"} THEN <<"\\", Head(s)>> ELSE <<Head(s)>>)
         \o JsonEscape(Tail(s))

\* json.dumps(x) with the default separators ", " and ": "
RECURSIVE JsonDumps(_)
RECURSIVE JsonDumpsItems(_, _)
JsonDumpsItems(items, isDict) ==
    IF items = <<>>
    THEN <<>>
    ELSE (IF isDict
          THEN <<"\"">> \o JsonEscape(Head(items)[1]) \o <<"\"", ":", " ">>
               \o JsonDumps(Head(items)[2])
          ELSE JsonDumps(Head(items)))
         \o (IF Len(items) > 1 THEN <<",", " ">> ELSE <<>>)
         \o JsonDumpsItems(Tail(items), isDict)

JsonDumps(x) ==
    CASE x.t = "str" -> <<"\"">> \o JsonEscape(x.v) \o <<"\"">>
      [] x.t = "int" -> (IF x.v < 0 THEN <<"-">> \o IntToStr(-x.v) ELSE IntToStr(x.v))
      [] x.t = "dict" -> <<"{">> \o JsonDumpsItems(x.v, TRUE) \o <<"}">>
      [] x.t = "list" -> <<"[">> \o JsonDumpsItems(x.v, FALSE) \o <<"]">>
      [] x.t = "const" -> x.v

(***************************************************************************)
(* json.loads, as a recursive-descent decoder over the characters.  A      *)
(* parse step returns [ok, pos, val]: pos is the 1-based index of the      *)
(* first character not consumed.  Numbers are integers (the texts of the   *)
(* model hold no fraction or exponent).                                    *)
(***************************************************************************)
ParseFail == [ok |-> FALSE, pos |-> 0, val |-> PyConst(<<>>)]

ParseOk(pos, val) == [ok |-> TRUE, pos |-> pos, val |-> val]

\* the index of the first non-whitespace character at or after i
RECURSIVE SkipWs(_, _)
SkipWs(s, i) == IF i <= Len(s) /\ IsSpace(s[i]) THEN SkipWs(s, i + 1) ELSE i

\* a string literal whose opening quote is at i
RECURSIVE ParseStringBody(_, _, _)
ParseStringBody(s, i, acc) ==
    IF i > Len(s)
    THEN ParseFail
    ELSE IF s[i] = "\""
         THEN ParseOk(i + 1, PyStr(acc))
         ELSE IF s[i] = "\\"
              THEN IF i + 1 <= Len(s) /\ s[i + 1] \in {"\"", "\\"}
                   THEN ParseStringBody(s, i + 2, Append(acc, s[i + 1]))
                   ELSE ParseFail
              ELSE IF s[i] \in {"\t", "\n"}
                   THEN ParseFail
                   ELSE ParseStringBody(s, i + 1, Append(acc, s[i]))

RECURSIVE ParseDigits(_, _, _)
ParseDigits(s, i, acc) ==
    IF i <= Len(s) /\ s[i] \in Digits
    THEN ParseDigits(s, i + 1, 10 * acc + DigitVal(s[i]))
    ELSE ParseOk(i, PyInt(acc))

\* an integer starting at i: -? (0 | [1-9][0-9]*)
ParseNumber(s, i) ==
    LET neg == s[i] = "-"
        j == IF neg THEN i + 1 ELSE i
    IN IF j > Len(s) \/ s[j] \notin Digits
       THEN ParseFail
       ELSE LET r == IF s[j] = "0" THEN ParseOk(j + 1, PyInt(0)) ELSE ParseDigits(s, j, 0)
            IN IF neg THEN ParseOk(r.pos, PyInt(-r.val.v)) ELSE r

JsonLiterals == {<<"t", "r", "u", "e">>, <<"f", "a", "l", "s", "e">>, <<"n", "u", "l", "l">>}

ParseLiteral(s, i) ==
    IF \E w \in JsonLiterals : StartsWith(SliceFrom(s, i - 1), w)
    THEN LET w == CHOOSE x \in JsonLiterals : StartsWith(SliceFrom(s, i - 1), x)
         IN ParseOk(i + Len(w), PyConst(w))
    ELSE ParseFail

RECURSIVE ParseValue(_, _)
RECURSIVE ParseMembers(_, _, _)
RECURSIVE ParseElements(_, _, _)
\* the members of an object, the first key's opening quote expected at i
ParseMembers(s, i, acc) ==
    IF i > Len(s) \/ s[i] # "\""
    THEN ParseFail
    ELSE LET k == ParseStringBody(s, i + 1, <<>>)
         IN IF ~k.ok
            THEN ParseFail
            ELSE LET c == SkipWs(s, k.pos)
                 IN IF c > Len(s) \/ s[c] # ":"
                    THEN ParseFail
                    ELSE LET v == ParseValue(s, c + 1)
                         IN IF ~v.ok
                            THEN ParseFail
                            ELSE LET e == SkipWs(s, v.pos)
                                     got == Append(acc, <<k.val.v, v.val>>)
                                 IN IF e > Len(s)
                                    THEN ParseFail
                                    ELSE IF s[e] = "}"
                                         THEN ParseOk(e + 1, PyDict(got))
                                         ELSE IF s[e] = ","
                                              THEN ParseMembers(s, SkipWs(s, e + 1), got)
                                              ELSE ParseFail

\* the elements of an array, the first value expected at i
ParseElements(s, i, acc) ==
    LET v == ParseValue(s, i)
    IN IF ~v.ok
       THEN ParseFail
       ELSE LET e == SkipWs(s, v.pos)
                got == Append(acc, v.val)
            IN IF e > Len(s)
               THEN ParseFail
               ELSE IF s[e] = "]"
                    THEN ParseOk(e + 1, PyList(got))
                    ELSE IF s[e] = "," THEN ParseElements(s, e + 1, got) ELSE ParseFail

\* a JSON value starting at or after i, leading whitespace skipped
ParseValue(s, i0) ==
    LET i == SkipWs(s, i0)
    IN IF i > Len(s)
       THEN ParseFail
       ELSE CASE s[i] = "{" ->
                    (LET j == SkipWs(s, i + 1)
                     IN IF j <= Len(s) /\ s[j] = "}"
                        THEN ParseOk(j + 1, EmptyDict)
                        ELSE ParseMembers(s, j, <<>>))
              [] s[i] = "[" ->
                    (LET j == SkipWs(s, i + 1)
                     IN IF j <= Len(s) /\ s[j] = "]"
                        THEN ParseOk(j + 1, PyList(<<>>))
                        ELSE ParseElements(s, j, <<>>))
              [] s[i] = "\"" -> ParseStringBody(s, i + 1, <<>>)
              [] s[i] \in Digits \cup {"-"} -> ParseNumber(s, i)
              [] OTHER -> ParseLiteral(s, i)

\* json.loads(s): [ok, val], ok FALSE standing for JSONDecodeError
JsonLoads(s) ==
    LET r == ParseValue(s, 1)
    IN IF r.ok /\ SkipWs(s, r.pos) > Len(s)
       THEN [ok |-> TRUE, val |-> r.val]
       ELSE [ok |-> FALSE, val |-> ParseFail.val]

\* whether s is valid JSON text
IsValidJson(s) == JsonLoads(s).ok

(***************************************************************************)
(* Dicts and the adapters Function, ToolCall, Message, WrappedResponse.    *)
(***************************************************************************)
PyNone == [t |-> "NoneType", v |-> <<>>]

\* d.get(key, default)
Get(d, key, default) == IF key \in DOMAIN d THEN d[key] ELSE default

\* {}: the dict without keys
NoKeys == [k \in {} |-> PyNone]

\* d[key] = value
SetItem(d, key, value) == [k \in DOMAIN d \cup {key} |-> IF k = key THEN value ELSE d[k]]

\* f"call_{index}"
CallId(index) == <<"c", "a", "l", "l", "_">> \o IntToStr(index)

\* Function.from_ollama: a dict of arguments is serialized, anything else is kept
FunctionFromOllama(function_data) ==
    LET arguments == Get(function_data, "arguments", EmptyDict)
    IN [name |-> Get(function_data, "name", <<>>),
        arguments |-> IF IsDict(arguments) THEN PyStr(JsonDumps(arguments)) ELSE arguments]

\* ToolCall.from_ollama
ToolCallFromOllama(tool_call_data, index) ==
    [id |-> Get(tool_call_data, "id", CallId(index)),
     type |-> Get(tool_call_data, "type", "function"),
     function |-> FunctionFromOllama(Get(tool_call_data, "function", NoKeys))]

\* placeholders counted from 1
WrappedToolCalls_OneBased(raw) ==
    [i \in 1..Len(raw) |->
        [id |-> Get(raw[i], "id", CallId(i)),
         type |-> Get(raw[i], "type", "function"),
         function |-> FunctionFromOllama(Get(raw[i], "function", NoKeys))]]

\* the loop of WrappedResponse.__init__: the i-th ToolCall is built when
\* len(tool_calls) is i - 1
WrappedToolCalls(raw) ==
    [i \in 1..Len(raw) |->
        [id |-> Get(raw[i], "id", CallId(i - 1)),
         type |-> Get(raw[i], "type", "function"),
         function |-> FunctionFromOllama(Get(raw[i], "function", NoKeys))]]

\* WrappedResponse.__init__: choices[0].message
WrappedResponse(ollama_response) ==
    LET message_data == Get(ollama_response, "message", NoKeys)
    IN [content |-> Get(message_data, "content", PyStr(<<>>)),
        role |-> Get(message_data, "role", ""),
        tool_calls |-> IF "tool_calls" \in DOMAIN message_data
                       THEN PyList(WrappedToolCalls(message_data["tool_calls"]))
                       ELSE PyNone]

(***************************************************************************)
(* ChatCompletions.create.                                                 *)
(***************************************************************************)
\* the tool call dict the heuristic builds from the bracketed text
SynthesizedToolCall(function_call) ==
    [id |-> <<"c", "a", "l", "l", "_", "1">>,
     type |-> "function",
     function |-> [name |-> FuncName(function_call),
                   arguments |-> PyStr(IF FuncArgs(function_call) = <<>>
                                       THEN <<"{", "}">>
                                       ELSE FuncArgs(function_call))]]

\* content.replace(f"[{function_call}]", "").strip()
CleanContent(content, function_call) ==
    Strip(Replace(content, <<"[">> \o function_call \o <<"]">>))

\* content.index("]") in place of find: ValueError when "[" has no "]"
ParseRaises_Index(response) ==
    LET content == Get(Get(response, "message", NoKeys), "content", PyStr(<<>>))
    IN content.t # "str" \/ (Contains(content.v, "[") /\ ~Contains(content.v, "]"))

\* "[" in x raises TypeError unless x is a str
ParseRaises(response) == Get(Get(response, "message", NoKeys), "content", PyStr(<<>>)).t # "str"

\* lines 189-210: the response after the heuristic has looked at it
ParseResponse(response) ==
    LET content == Get(Get(response, "message", NoKeys), "content", PyStr(<<>>)).v
    IN IF HeuristicFires(content)
       THEN [response EXCEPT !.message =
                SetItem(SetItem(response.message, "content",
                                PyStr(CleanContent(content, FunctionCall(content)))),
                        "tool_calls", <<SynthesizedToolCall(FunctionCall(content))>>)]
       ELSE response

\* lines 138-141: KeyError when a message lacks role or content
CleanRaises(msgs) == \E i \in 1..Len(msgs) : ~({"role", "content"} \subseteq DOMAIN msgs[i])

\* the caller's dicts passed on whole
CleanMessages_Whole(msgs) == msgs

CleanMessages(msgs) ==
    [i \in 1..Len(msgs) |-> [role |-> msgs[i]["role"], content |-> msgs[i]["content"]]]

\* if tools: None and the empty list are falsy
Truthy(tls) == tls.t = "list" /\ tls.v # <<>>

\* lines 154-167: KeyError when a descriptor lacks function, name, parameters
\* or properties
FormatToolRaises(tool) ==
    \/ "function" \notin DOMAIN tool
    \/ "name" \notin DOMAIN tool["function"]
    \/ "parameters" \notin DOMAIN tool["function"]
    \/ "properties" \notin DOMAIN tool["function"]["parameters"]

FormatTool(tool) ==
    [type |-> "function",
     function |->
        [name |-> tool["function"]["name"],
         description |-> Get(tool["function"], "description", ""),
         parameters |->
            [type |-> "object",
             properties |-> tool["function"]["parameters"]["properties"],
             required |-> Get(tool["function"]["parameters"], "required", <<>>)]]]

FormatTools(tls) == [i \in 1..Len(tls) |-> FormatTool(tls[i])]

\* lines 144-148 and 169
OllamaKwargs(msgs, mdl, strm, tls) ==
    LET base == [model |-> mdl, messages |-> CleanMessages(msgs), stream |-> strm]
    IN IF Truthy(tls) THEN SetItem(base, "tools", FormatTools(tls.v)) ELSE base

\* lines 173-177
DebugRequest(kwargs) ==
    [model |-> kwargs["model"],
     messages |-> kwargs["messages"],
     tools |-> Get(kwargs, "tools", <<>>)]

\* request values json.dumps cannot encode (TypeError: not JSON serializable)
Unencodable == {"<bytes>", "<object>"}

\* whether json.dumps(debug_request, indent=2, ensure_ascii=False) returns
JsonEncodable(debug_request) ==
    /\ \A i \in 1..Len(debug_request.messages) :
          /\ debug_request.messages[i].role \notin Unencodable
          /\ debug_request.messages[i].content \notin Unencodable
    /\ \A i \in 1..Len(debug_request.tools) :
          /\ debug_request.tools[i].function.name \notin Unencodable
          /\ debug_request.tools[i].function.description \notin Unencodable
          /\ debug_request.tools[i].function.parameters.properties \notin Unencodable

\* except Exception tried first
Handle_GenericFirst(exc) == "RuntimeError"

\* the except clauses of lines 212-220, tried in order
Handle(exc) ==
    IF exc = "ResponseError"
    THEN "NameError"
    ELSE IF exc = "ConnectError" THEN "ConnectionError" ELSE "RuntimeError"

NoMessage == [content |-> PyNone, role |-> "", tool_calls |-> PyNone]

Raise(error) == [kind |-> "raise", error |-> error, message |-> NoMessage]

Return(message) == [kind |-> "return", error |-> "", message |-> message]

Ended(calls, log, how) == [chatCalls |-> calls, logged |-> log, outcome |-> how]

\* create, start to end.  logStep says whether lines 173-181 (the debug log)
\* are there; the code has them.
CreateBody(msgs, mdl, strm, tls, dbg, rt, logStep) ==
    IF CleanRaises(msgs)
    THEN Ended(<<>>, <<>>, Raise("KeyError"))
    ELSE IF Truthy(tls) /\ \E i \in 1..Len(tls.v) : FormatToolRaises(tls.v[i])
    THEN Ended(<<>>, <<>>, Raise("KeyError"))
    ELSE LET ollama_kwargs == OllamaKwargs(msgs, mdl, strm, tls)
             debug_request == DebugRequest(ollama_kwargs)
         IN IF logStep /\ ~JsonEncodable(debug_request)
            THEN Ended(<<>>, <<>>, Raise(Handle("TypeError")))
            ELSE LET log == IF logStep /\ dbg THEN <<debug_request>> ELSE <<>>
                     calls == <<ollama_kwargs>>
                 IN IF rt.kind = "raise"
                    THEN Ended(calls, log, Raise(Handle(rt.exc)))
                    ELSE IF ParseRaises(rt.response)
                    THEN Ended(calls, log, Raise(Handle("TypeError")))
                    ELSE Ended(calls, log, Return(WrappedResponse(ParseResponse(rt.response))))

(***************************************************************************)
(* The inputs of a call: the request and what the runtime answers.         *)
(***************************************************************************)
\* d with key set to value when present holds
WithKey(d, present, key, value) == IF present THEN SetItem(d, key, value) ELSE d

\* the sequences over S of length at most n
SeqsUpTo(S, n) == UNION {[1..k -> S] : k \in 0..n}

RECURSIVE Flatten(_)
Flatten(ss) == IF ss = <<>> THEN <<>> ELSE Head(ss) \o Flatten(Tail(ss))

CallText == <<"[", "f", "(", "1", ")", "]">>

\* what a reply is made of: single characters and one whole bracketed call
Frags == {<<"[">>, <<"]">>, <<"(">>, <<")">>, <<"f">>, <<" ">>, CallText}

Contents == {Flatten(fs) : fs \in SeqsUpTo(Frags, MaxFrags)}

\* message dicts a caller passes: with an extra key, without role, with a
\* content json cannot encode
MessageShapes ==
    {[role |-> "user", content |-> "hi"],
     [role |-> "system", content |-> "be brief", name |-> "n"],
     [role |-> "assistant", content |-> "ok", tool_calls |-> "calls", sender |-> "A"],
     [content |-> "hi"],
     [role |-> "user", content |-> "<bytes>"]}

\* tool descriptors: complete, minimal, without parameters, without function,
\* with properties json cannot encode
ToolShapes ==
    {[type |-> "function",
      function |-> [name |-> "f", description |-> "d",
                    parameters |-> [type |-> "object", properties |-> "props",
                                    required |-> <<"x">>]]],
     [function |-> [name |-> "f", parameters |-> [properties |-> "props"]]],
     [function |-> [name |-> "f", description |-> "d"]],
     [type |-> "function"],
     [function |-> [name |-> "f", parameters |-> [properties |-> "<object>"]]]}

ToolsArgs == {PyNone} \cup {PyList(ts) : ts \in SeqsUpTo(ToolShapes, MaxTools)}

\* the arguments a native tool call may carry
NativeArguments ==
    {PyDict(<< <<<<"a">>, PyInt(1)>> >>),
     PyDict(<< <<<<"a">>, PyInt(10)>>, <<<<"b">>, PyStr(<<"f", "\"">>)>> >>),
     PyStr(<<"{", "}">>),
     PyStr(<<"f">>)}

NativeFunctions ==
    {[name |-> <<"g">>]} \cup {[name |-> <<"g">>, arguments |-> a] : a \in NativeArguments}

NativeIds == {<<"c", "a", "l", "l", "_", "1">>, <<"x">>}

\* the tool call dicts of a runtime response, each key present or not
NativeCalls ==
    {WithKey(WithKey(WithKey(NoKeys, hasId, "id", id), hasType, "type", "function"),
             TRUE, "function", fn) :
        hasId \in BOOLEAN, id \in NativeIds, hasType \in BOOLEAN, fn \in NativeFunctions}
    \cup {NoKeys}

\* a response of client.chat: content is a str or None, tool_calls present or not
Response(content, hasCalls, calls) ==
    [message |-> WithKey([role |-> "assistant", content |-> content],
                         hasCalls, "tool_calls", calls)]

Answers(resp) == [kind |-> "response", exc |-> "", response |-> resp]

Raises(exc) == [kind |-> "raise", exc |-> exc, response |-> Response(PyNone, FALSE, <<>>)]

\* the errors client.chat raises: ollama's ResponseError, httpx's ConnectError
\* and the rest
ChatErrors == {"ResponseError", "ConnectError", "TimeoutError"}

NoOutcome == [kind |-> "none", error |-> "", message |-> NoMessage]

InitCommon ==
    /\ pc = "ready"
    /\ chatCalls = <<>>
    /\ logged = <<>>
    /\ outcome = NoOutcome

\* replies of every shape to one plain request
InitContent ==
    /\ InitCommon
    /\ messages = <<[role |-> "user", content |-> "hi"]>>
    /\ model = "llama3.2:3b"
    /\ stream = FALSE
    /\ tools = PyNone
    /\ debug = FALSE
    /\ \E c \in Contents, hasCalls \in BOOLEAN :
          runtime = Answers(Response(PyStr(c), hasCalls,
                                     <<[function |-> [name |-> <<"g">>]]>>))

\* requests of every shape, answered or failed by the runtime
InitRequest ==
    /\ InitCommon
    /\ messages \in SeqsUpTo(MessageShapes, MaxMsgs)
    /\ model \in {"llama3.2:3b", "llama3.2:1b"}
    /\ stream = FALSE
    /\ tools \in ToolsArgs
    /\ debug \in BOOLEAN
    /\ runtime \in {Raises(e) : e \in ChatErrors}
                    \cup {Answers(Response(PyStr(c), FALSE, <<>>)) : c \in {<<"f">>, CallText}}

\* native tool calls of every shape in the reply to one plain request
InitNative ==
    /\ InitCommon
    /\ messages = <<[role |-> "user", content |-> "hi"]>>
    /\ model = "llama3.2:3b"
    /\ stream = FALSE
    /\ tools = PyNone
    /\ debug = TRUE
    /\ \E c \in {PyStr(<<>>), PyStr(<<"f">>), PyStr(CallText), PyNone} :
          \E calls \in SeqsUpTo(NativeCalls, MaxCalls) :
             runtime = Answers(Response(c, TRUE, calls))

Init == InitContent \/ InitRequest \/ InitNative

\* one call of create, start to end
Create ==
    /\ pc = "ready"
    /\ pc' = "done"
    /\ LET r == CreateBody(messages, model, stream, tools, debug, runtime, TRUE)
       IN /\ chatCalls' = r.chatCalls
          /\ logged' = r.logged
          /\ outcome' = r.outcome
    /\ UNCHANGED <<messages, model, stream, tools, debug, runtime>>

Next == Create

Spec == Init /\ [][Next]_vars

(***************************************************************************)
(* What the properties below speak of.                                     *)
(***************************************************************************)
RawMessage == runtime.response.message

RawHasCalls == "tool_calls" \in DOMAIN RawMessage

RawCalls == RawMessage["tool_calls"]

ChatAnswered == pc = "done" /\ chatCalls # <<>> /\ runtime.kind = "response"

Returned == pc = "done" /\ outcome.kind = "return"

Raised == pc = "done" /\ outcome.kind = "raise"

RawIsStr == RawMessage.content.t = "str"

RawText == RawMessage.content.v

ReturnedCalls == outcome.message.tool_calls.v

\* ConnectionFailure, ModelError, OperationFailure
MappedErrors == {"ConnectionError", "NameError", "RuntimeError"}

\* the text between the first "[" and the first "]"
Bracketed(c) == SubSeq(c, Find(c, "[") + 2, Find(c, "]"))

\* a first "[" followed later by a first "]", with "(" and ")" between them
BracketCase(c) ==
    /\ Contains(c, "[") /\ Contains(c, "]")
    /\ Find(c, "[") < Find(c, "]")
    /\ Contains(Bracketed(c), "(") /\ Contains(Bracketed(c), ")")

\* t up to, not including, its first character of S (all of t if it has none)
Before(t, S) ==
    IF \E i \in 1..Len(t) : t[i] \in S
    THEN SubSeq(t, 1, (CHOOSE i \in 1..Len(t) :
                         t[i] \in S /\ \A j \in 1..(i - 1) : t[j] \notin S) - 1)
    ELSE t

\* t after its first "("
AfterOpen(t) == SubSeq(t, Len(Before(t, {"("})) + 2, Len(t))

Trimmed(t) ==
    IF \E i \in 1..Len(t) : t[i] # " "
    THEN SubSeq(t, CHOOSE i \in 1..Len(t) : t[i] # " " /\ \A j \in 1..(i - 1) : t[j] = " ",
                   CHOOSE i \in 1..Len(t) : t[i] # " " /\ \A j \in (i + 1)..Len(t) : t[j] = " ")
    ELSE <<>>

OrBraces(t) == IF t = <<>> THEN <<"{", "}">> ELSE t

\* exactly one tool call, call_1 of type function, named by the text before "("
OneCallNamed(c) ==
    /\ outcome.message.tool_calls.t = "list"
    /\ Len(ReturnedCalls) = 1
    /\ ReturnedCalls[1].id = <<"c", "a", "l", "l", "_", "1">>
    /\ ReturnedCalls[1].type = "function"
    /\ ReturnedCalls[1].function.name = Trimmed(Before(Bracketed(c), {"("}))
    /\ ReturnedCalls[1].function.arguments.t = "str"

\* C1, as claimed: in the bracket case the message carries exactly one tool
\* call, call_1 of type function, named by the trimmed text before the first
\* "(", its arguments the trimmed text between that "(" and the next ")", or
\* "{}" when that text is empty.
C1_ArgsUpToNextClose ==
    (Returned /\ RawIsStr /\ BracketCase(RawText)) =>
        /\ OneCallNamed(RawText)
        /\ Contains(AfterOpen(Bracketed(RawText)), ")") =>
              ReturnedCalls[1].function.arguments.v =
                 OrBraces(Trimmed(Before(AfterOpen(Bracketed(RawText)), {")"})))

\* C1, amended: the arguments are the trimmed text between the first "(" and
\* the first "(" or ")" after it, or the end of the bracketed text when neither
\* follows; "{}" when that text is empty.  With or without native tool_calls.
C1_ArgsUpToNextParen ==
    (Returned /\ RawIsStr /\ BracketCase(RawText)) =>
        /\ OneCallNamed(RawText)
        /\ ReturnedCalls[1].function.arguments.v =
              OrBraces(Trimmed(Before(AfterOpen(Bracketed(RawText)), {"(", ")"})))

C1_Witness ==
    /\ Returned /\ RawIsStr /\ BracketCase(RawText)
    /\ RawHasCalls
    /\ Contains(Before(AfterOpen(Bracketed(RawText)), {")"}), "(")
    /\ ReturnedCalls[1].function.name = <<"f">>

\* "[" + the bracketed text + "]"
BracketedText(c) == <<"[">> \o Bracketed(c) \o <<"]">>

\* the 1-based indices at which x occurs in c
Occurrences(c, x) == {i \in 1..(Len(c) - Len(x) + 1) : SubSeq(c, i, i + Len(x) - 1) = x}

\* the characters of c from index i on that lie in no occurrence of x
RECURSIVE Outside(_, _, _)
Outside(c, x, i) ==
    IF i > Len(c)
    THEN <<>>
    ELSE (IF \E j \in Occurrences(c, x) : j <= i /\ i < j + Len(x) THEN <<>> ELSE <<c[i]>>)
         \o Outside(c, x, i + 1)

\* C2, as claimed: when the bracketed text occurs more than once in the
\* content, every occurrence after the first is still in the returned content.
C2_LaterOccurrencesKept ==
    (Returned /\ RawIsStr /\ BracketCase(RawText)) =>
        Cardinality(Occurrences(outcome.message.content.v, BracketedText(RawText)))
            >= Cardinality(Occurrences(RawText, BracketedText(RawText))) - 1

\* C2, amended: every occurrence of the bracketed text is removed; the returned
\* content is the runtime's content without the characters of any occurrence,
\* trimmed.
C2_AllOccurrencesRemoved ==
    (Returned /\ RawIsStr /\ BracketCase(RawText)) =>
        outcome.message.content.v = Trimmed(Outside(RawText, BracketedText(RawText), 1))

C2_Witness ==
    /\ Returned /\ RawIsStr /\ BracketCase(RawText)
    /\ Cardinality(Occurrences(RawText, BracketedText(RawText))) >= 2
    /\ outcome.message.content.v # <<>>

\* the tool calls are the runtime's own, none added: as many, named alike,
\* or None when the runtime sent none
NoneSynthesized ==
    IF RawHasCalls
    THEN /\ outcome.message.tool_calls.t = "list"
         /\ Len(ReturnedCalls) = Len(RawCalls)
         /\ \A i \in 1..Len(RawCalls) :
               ReturnedCalls[i].function.name = Get(Get(RawCalls[i], "function", NoKeys), "name", <<>>)
    ELSE outcome.message.tool_calls = PyNone

\* C3: outside the bracket case (no "[", no "]", or no "(" and ")" between
\* the first "[" and the first "]") no tool call is synthesized, the content is
\* returned unchanged, and tool_calls is None when the runtime sent none.
C3_NoCallOutsideBracketCase ==
    (Returned /\ RawIsStr /\ ~BracketCase(RawText)) =>
        /\ outcome.message.content.v = RawText
        /\ NoneSynthesized

C3_Witness ==
    /\ Returned /\ RawIsStr /\ ~BracketCase(RawText) /\ ~RawHasCalls
    /\ Contains(RawText, "[") /\ Contains(RawText, "]")
    /\ Contains(RawText, "(") /\ Contains(RawText, ")")
    /\ outcome.message.tool_calls = PyNone

\* C4: the messages handed to client.chat are as many as the caller's, in the
\* same order, each with exactly the keys role and content and the caller's
\* values; create leaves the caller's messages as they were.
C4_OnlyRoleAndContentForwarded ==
    /\ [](\A n \in 1..Len(chatCalls) :
            /\ Len(chatCalls[n].messages) = Len(messages)
            /\ \A i \in 1..Len(messages) :
                  /\ DOMAIN chatCalls[n].messages[i] = {"role", "content"}
                  /\ chatCalls[n].messages[i]["role"] = messages[i]["role"]
                  /\ chatCalls[n].messages[i]["content"] = messages[i]["content"])
    /\ [][messages' = messages]_vars

C4_Witness ==
    /\ pc = "done" /\ Len(chatCalls) = 1
    /\ Len(messages) = 2
    /\ DOMAIN messages[1] # {"role", "content"}
    /\ messages[1]["role"] # messages[2]["role"]

\* C5: when client.chat raises, ResponseError reaches the caller as NameError,
\* ConnectError as ConnectionError, anything else as RuntimeError; nothing is
\* returned and client.chat has been called once.
C5_ChatErrorsMapped ==
    (pc = "done" /\ chatCalls # <<>> /\ runtime.kind = "raise") =>
        /\ outcome.kind = "raise"
        /\ outcome.message = NoMessage
        /\ outcome.error = (CASE runtime.exc = "ResponseError" -> "NameError"
                              [] runtime.exc = "ConnectError" -> "ConnectionError"
                              [] OTHER -> "RuntimeError")
        /\ Len(chatCalls) = 1

C5_Witness ==
    /\ pc = "done" /\ Len(chatCalls) = 1
    /\ runtime.kind = "raise" /\ runtime.exc = "ConnectError"
    /\ outcome.error = "ConnectionError"

\* C6, as claimed: whatever fails in create, the caller sees ConnectionError,
\* NameError or RuntimeError and no other error.
C6_EveryFailureMapped == Raised => outcome.error \in MappedErrors

\* the arguments the runtime gave its i-th tool call ({} when it gave none)
RawArguments(i) == Get(Get(RawCalls[i], "function", NoKeys), "arguments", EmptyDict)

\* C7, as claimed: the arguments of every returned tool call are a str of valid
\* JSON; a dict of arguments the runtime sent is recovered by decoding it.
C7_ArgumentsAreJson ==
    (Returned /\ outcome.message.tool_calls.t = "list") =>
        /\ \A i \in 1..Len(ReturnedCalls) :
              /\ ReturnedCalls[i].function.arguments.t = "str"
              /\ IsValidJson(ReturnedCalls[i].function.arguments.v)
        /\ (RawHasCalls /\ ~BracketCase(RawText)) =>
              \A i \in 1..Len(RawCalls) :
                 IsDict(RawArguments(i)) =>
                    JsonLoads(ReturnedCalls[i].function.arguments.v).val = RawArguments(i)

\* C8, as claimed: what create does (the calls of client.chat, their
\* arguments, the result or the error) is what it would do without the debug
\* log step, with the logger enabled or not.
C8_LogStepInert ==
    pc = "done" =>
        LET without == CreateBody(messages, model, stream, tools, debug, runtime, FALSE)
        IN chatCalls = without.chatCalls /\ outcome = without.outcome

\* C9, as claimed: there is a content, answered by client.chat to the request
\* at hand, for which the parsing raises an error that reaches the caller as it
\* is, not as ConnectionError, NameError or RuntimeError.
C9_UnmappedParsingError ==
    \E c \in Contents :
        LET r == CreateBody(messages, model, stream, tools, debug,
                            Answers(Response(PyStr(c), FALSE, <<>>)), TRUE)
        IN r.chatCalls # <<>> /\ r.outcome.kind = "raise" /\ r.outcome.error \notin MappedErrors

\* C9, amended: the parsing is inside the guarded region and raises nothing on
\* a str, however malformed its brackets: create returns.  A content that is
\* not a str makes it raise, and the caller sees RuntimeError.
C9_ParsingGuarded ==
    ChatAnswered =>
        IF RawIsStr
        THEN outcome.kind = "return"
        ELSE outcome.kind = "raise" /\ outcome.error = "RuntimeError"

C9_Witness ==
    /\ Returned /\ RawIsStr
    /\ Contains(RawText, "[") /\ ~Contains(RawText, "]")
    /\ Contains(RawText, ")") /\ Contains(RawText, "(")
    /\ Find(RawText, ")") < Find(RawText, "(")

\* the i-th returned tool call is the runtime's i-th: its id, or call_<i-1>
\* when it has none, and its function
FromRawCall(i) ==
    /\ ReturnedCalls[i].id =
          (IF "id" \in DOMAIN RawCalls[i]
           THEN RawCalls[i]["id"]
           ELSE <<"c", "a", "l", "l", "_">> \o IntToStr(i - 1))
    /\ ReturnedCalls[i].function.name = Get(Get(RawCalls[i], "function", NoKeys), "name", <<>>)
    /\ IF IsDict(RawArguments(i))
       THEN JsonLoads(ReturnedCalls[i].function.arguments.v) = [ok |-> TRUE, val |-> RawArguments(i)]
       ELSE ReturnedCalls[i].function.arguments = RawArguments(i)

NativeCallsKept ==
    /\ outcome.message.tool_calls.t = "list"
    /\ Len(ReturnedCalls) = Len(RawCalls)
    /\ \A i \in 1..Len(RawCalls) : FromRawCall(i)

DistinctIds == \A i, j \in 1..Len(ReturnedCalls) : i # j => ReturnedCalls[i].id # ReturnedCalls[j].id

\* C10, as claimed: without the heuristic firing, n native tool calls come back
\* as n ToolCalls in order, each with its own id or call_i, so that the ids of
\* one message are pairwise distinct.
C10_NativeIdsDistinct ==
    (Returned /\ RawIsStr /\ ~BracketCase(RawText) /\ RawHasCalls) =>
        NativeCallsKept /\ DistinctIds

\* the ids the runtime gave are pairwise distinct
SourceIdsDistinct ==
    \A i, j \in 1..Len(RawCalls) :
        (i # j /\ "id" \in DOMAIN RawCalls[i] /\ "id" \in DOMAIN RawCalls[j]) =>
            RawCalls[i]["id"] # RawCalls[j]["id"]

\* no id the runtime gave is the placeholder of an entry that has none
NoPlaceholderGiven ==
    \A i, j \in 1..Len(RawCalls) :
        ("id" \in DOMAIN RawCalls[i] /\ "id" \notin DOMAIN RawCalls[j]) =>
            RawCalls[i]["id"] # <<"c", "a", "l", "l", "_">> \o IntToStr(j - 1)

\* C10, amended: n ToolCalls in order, each with its own id or call_i; the ids
\* are pairwise distinct when the ids the runtime gave are pairwise distinct
\* and none of them is the placeholder of an entry without id.
C10_NativeCallsInOrder ==
    (Returned /\ RawIsStr /\ ~BracketCase(RawText) /\ RawHasCalls) =>
        /\ NativeCallsKept
        /\ (SourceIdsDistinct /\ NoPlaceholderGiven) => DistinctIds

C10_Witness ==
    /\ Returned /\ RawIsStr /\ ~BracketCase(RawText) /\ RawHasCalls
    /\ Len(RawCalls) = 2
    /\ "id" \in DOMAIN RawCalls[1] /\ "id" \notin DOMAIN RawCalls[2]
    /\ IsDict(RawArguments(1)) /\ Len(RawArguments(1).v) = 2
    /\ RawArguments(2) # RawArguments(1)
    /\ ReturnedCalls[2].id = <<"c", "a", "l", "l", "_", "1">>
    /\ DistinctIds

====
